---- MODULE Spec2Model ----
(***************************************************************************)
(* Model of the lynceus-platform repository:                               *)
(*   - kinematics-controller/src/kinematics.rs : the inverse kinematics of *)
(*     the six-leg platform (calc_rot_matrix, calc_servo_pos,              *)
(*     inverse_kinematics, l2_norm);                                       *)
(*   - maestro-control/src/maestro.rs : the serial driver of the Maestro   *)
(*     servo controller.                                                   *)
(*                                                                         *)
(* Numbers.  Coordinates and leg lengths are whole numbers.  An f64 that   *)
(* comes out of a square root is carried in fixed point with FScale units  *)
(* per 1.0; a quotient of two f64 is carried as the exact fraction         *)
(* [num, den] of the two fixed-point values, den = 0 standing for the IEEE *)
(* results of a division by 0.0 (an infinity, or NaN when num = 0).  An    *)
(* angle returned by acos/atan2 is carried in whole degrees (nearest       *)
(* degree), or is NaN.  A Decimal angle handed to calc_rot_matrix is given *)
(* in degrees, a multiple of 15 (k*pi/12 rad); Decimal sines, cosines and  *)
(* their products are carried with 6 decimals, a rounded matrix entry      *)
(* with 4.                                                                 *)
(***************************************************************************)
EXTENDS Integers, Sequences, FiniteSets, TLC

VARIABLES top_leg_length, bottom_leg_length, motors,
          constructed, op, args, ret, locals,
          serial_port, m_accepted, m_op, m_args, m_ret

kin_vars == <<top_leg_length, bottom_leg_length, motors, constructed,
              op, args, ret, locals>>
maestro_vars == <<serial_port, m_accepted, m_op, m_args, m_ret>>
vars == <<kin_vars, maestro_vars>>

-----------------------------------------------------------------------------
(* Bounds of the model *)

\* leg lengths are drawn from 1..MaxLen
MaxLen == 2
\* the x coordinate of a leg vector handed to calc_servo_pos is in 0..MaxCoord
MaxCoord == 2
\* channel arguments of the Maestro operations are in 0..MaxChannelArg
MaxChannelArg == 12
\* length of the lists handed to the batch operations of the Maestro
MaxBatch == 2

-----------------------------------------------------------------------------
(* Arithmetic helpers *)

Abs(x) == IF x < 0 THEN -x ELSE x

Sign(x) == IF x < 0 THEN -1 ELSE IF x > 0 THEN 1 ELSE 0

\* Rust's % on numbers: the remainder of the truncated division (sign of a)
TruncRem(a, b) == Sign(a) * (Abs(a) % Abs(b))

RECURSIVE ISqrtIter(_, _, _)
ISqrtIter(n, lo, hi) ==
    IF lo >= hi THEN lo
    ELSE LET mid == (lo + hi + 1) \div 2
         IN IF mid * mid <= n THEN ISqrtIter(n, mid, hi)
                              ELSE ISqrtIter(n, lo, mid - 1)

\* floor of the square root
ISqrt(n) == ISqrtIter(n, 0, IF n < 46340 THEN n ELSE 46340)

\* f64 values of the model: fixed point, FScale units per 1.0
FScale == 10000

\* the last f in lo..hi with (a + f/FScale)^2 <= a^2 + rest, lo if none
RECURSIVE SqrtFracIter(_, _, _, _)
SqrtFracIter(a, rest, lo, hi) ==
    IF lo >= hi THEN lo
    ELSE LET mid == (lo + hi + 1) \div 2
         IN IF 2 * a * mid * FScale + mid * mid <= rest * FScale * FScale
            THEN SqrtFracIter(a, rest, mid, hi)
            ELSE SqrtFracIter(a, rest, lo, mid - 1)

\* f64::sqrt of a whole number n, in fixed point: the whole part, then the
\* FScale-ths
FSqrt(n) ==
    LET a == ISqrt(n)
    IN a * FScale + SqrtFracIter(a, n - a * a, 0, FScale - 1)

\* an angle in f64: whole degrees, or NaN
NaN == [nan |-> TRUE, deg |-> 0]
Deg(k) == [nan |-> FALSE, deg |-> k]

FAdd(a, b) == IF a.nan \/ b.nan THEN NaN ELSE Deg(a.deg + b.deg)
FSub(a, b) == IF a.nan \/ b.nan THEN NaN ELSE Deg(a.deg - b.deg)

\* a quotient of two f64, with a positive denominator when it is not 0
Frac(n, d) == IF d < 0 THEN [num |-> -n, den |-> -d] ELSE [num |-> n, den |-> d]

\* x % 1.0 on f64: inf % 1.0 and NaN % 1.0 are NaN (num = 0, den = 0)
FRem1(x) == IF x.den = 0 THEN [num |-> 0, den |-> 0]
            ELSE [num |-> TruncRem(x.num, x.den), den |-> x.den]

\* 100000 * cos((k - 1/2) degrees), k in 1..180
CosHalf ==
  <<99996, 99966, 99905, 99813, 99692, 99540, 99357, 99144, 98902,
    98629, 98325, 97992, 97630, 97237, 96815, 96363, 95882, 95372,
    94832, 94264, 93667, 93042, 92388, 91706, 90996, 90259, 89493,
    88701, 87882, 87036, 86163, 85264, 84339, 83389, 82413, 81412,
    80386, 79335, 78261, 77162, 76041, 74896, 73728, 72537, 71325,
    70091, 68835, 67559, 66262, 64945, 63608, 62251, 60876, 59482,
    58070, 56641, 55194, 53730, 52250, 50754, 49242, 47716, 46175,
    44620, 43051, 41469, 39875, 38268, 36650, 35021, 33381, 31730,
    30071, 28402, 26724, 25038, 23345, 21644, 19937, 18224, 16505,
    14781, 13053, 11320, 9585, 7846, 6105, 4362, 2618, 873, -873, -2618,
    -4362, -6105, -7846, -9585, -11320, -13053, -14781, -16505, -18224,
    -19937, -21644, -23345, -25038, -26724, -28402, -30071, -31730,
    -33381, -35021, -36650, -38268, -39875, -41469, -43051, -44620,
    -46175, -47716, -49242, -50754, -52250, -53730, -55194, -56641,
    -58070, -59482, -60876, -62251, -63608, -64945, -66262, -67559,
    -68835, -70091, -71325, -72537, -73728, -74896, -76041, -77162,
    -78261, -79335, -80386, -81412, -82413, -83389, -84339, -85264,
    -86163, -87036, -87882, -88701, -89493, -90259, -90996, -91706,
    -92388, -93042, -93667, -94264, -94832, -95372, -95882, -96363,
    -96815, -97237, -97630, -97992, -98325, -98629, -98902, -99144,
    -99357, -99540, -99692, -99813, -99905, -99966, -99996>>

\* c/100000 > n/d for d > 0, that is c * d > n * 100000, with d and n taken
\* in thousands and units so that every product stays within 32 bits
CosAbove(c, n, d) ==
    LET p == c * (d \div 1000) - (n \div 1000) * 100000
        q == c * (d % 1000) - (n % 1000) * 100000
        t == p + (q \div 1000)
    IN t > 0 \/ (t = 0 /\ q % 1000 > 0)

\* the last k in lo..hi with CosHalf[k] > n/d (CosHalf decreases), lo if none
RECURSIVE LastAbove(_, _, _, _)
LastAbove(n, d, lo, hi) ==
    IF lo >= hi THEN lo
    ELSE LET mid == (lo + hi + 1) \div 2
         IN IF CosAbove(CosHalf[mid], n, d) THEN LastAbove(n, d, mid, hi)
                                            ELSE LastAbove(n, d, lo, mid - 1)

\* the nearest whole degree to arccos(n/d), for d > 0: the number of
\* half-degree marks whose cosine is above n/d
ArcCosDeg(n, d) == LastAbove(n, d, 0, 180)

\* libm::acos: NaN for NaN and outside [-1, 1]
acos(x) == IF x.den = 0 \/ Abs(x.num) > x.den THEN NaN
           ELSE Deg(ArcCosDeg(x.num, x.den))

\* Euclidean norm of a vector of whole numbers, in fixed point
l2_norm(x) ==
    LET dot == IF Len(x) = 2 THEN x[1] * x[1] + x[2] * x[2]
               ELSE x[1] * x[1] + x[2] * x[2] + x[3] * x[3]
    IN FSqrt(dot)

\* 10000 * tan((k - 1/2) degrees), k in 1..90
TanHalf ==
  <<87, 262, 437, 612, 787, 963, 1139, 1317, 1495, 1673, 1853, 2035,
    2217, 2401, 2586, 2773, 2962, 3153, 3346, 3541, 3739, 3939, 4142,
    4348, 4557, 4770, 4986, 5206, 5430, 5658, 5890, 6128, 6371, 6619,
    6873, 7133, 7400, 7673, 7954, 8243, 8541, 8847, 9163, 9490, 9827,
    10176, 10538, 10913, 11303, 11708, 12131, 12572, 13032, 13514,
    14019, 14550, 15108, 15697, 16319, 16977, 17675, 18418, 19210,
    20057, 20965, 21943, 22998, 24142, 25386, 26746, 28239, 29887,
    31716, 33759, 36059, 38667, 41653, 45107, 49152, 53955, 59758,
    66912, 75958, 87769, 103854, 127062, 163499, 229038, 381885, 1145887>>

\* the last k in lo..hi with TanHalf[k] < n/d (TanHalf increases), lo if none
RECURSIVE LastBelow(_, _, _, _)
LastBelow(n, d, lo, hi) ==
    IF lo >= hi THEN lo
    ELSE LET mid == (lo + hi + 1) \div 2
         IN IF TanHalf[mid] * d < n * 10000 THEN LastBelow(n, d, mid, hi)
                                            ELSE LastBelow(n, d, lo, mid - 1)

\* the nearest whole degree to arctan(n/d), for n >= 0 and d >= 0: the
\* number of half-degree marks whose tangent is below n/d
ArcTanDeg(n, d) == LastBelow(n, d, 0, 90)

\* libm::atan2(y, x) in whole degrees, in (-180, 180]
atan2(y, x) ==
    IF y = 0 THEN (IF x >= 0 THEN Deg(0) ELSE Deg(180))
    ELSE LET a == ArcTanDeg(Abs(y), Abs(x))
         IN Deg(Sign(y) * (IF x >= 0 THEN a ELSE 180 - a))

-----------------------------------------------------------------------------
(* Decimal trigonometry of calc_rot_matrix *)

\* the angles (degrees) a Decimal angle is drawn from; 45, 60, 90 are the
\* pi/4, pi/3, pi/2 of rotation_matrix_test
Angles == {0, 45, 60, 90}

\* 1000000 * cos(15 * (k - 1) degrees), k in 1..7
Cos15 == <<1000000, 965926, 866025, 707107, 500000, 258819, 0>>

\* Decimal::cos of a multiple of 15 degrees, 6 decimals
DCos(a) ==
    LET k == (a % 360) \div 15
    IN IF k <= 6 THEN Cos15[k + 1]
       ELSE IF k <= 12 THEN -Cos15[13 - k]
       ELSE IF k <= 18 THEN -Cos15[k - 11]
       ELSE Cos15[25 - k]

\* Decimal::sin
DSin(a) == DCos(a - 90)

\* n / d rounded to the nearest whole number, halves to the even one
\* (rust_decimal's rounding), for n >= 0 and d > 0
RoundDiv(n, d) ==
    LET q == n \div d
        r == n % d
    IN IF 2 * r > d \/ (2 * r = d /\ q % 2 = 1) THEN q + 1 ELSE q

\* Decimal * Decimal on values with 6 decimals, rounded to 6 decimals; the
\* product is taken in two halves to stay within 32-bit integers
DMul(a, b) ==
    LET x == Abs(a)
        y == Abs(b)
        xh == x \div 1000
        xl == x % 1000
        yh == y \div 1000
        yl == y % 1000
    IN Sign(a) * Sign(b)
         * (xh * yh + RoundDiv((xh * yl + xl * yh) * 1000 + xl * yl, 1000000))

\* Decimal::round_dp(4) of a value with 6 decimals: a value with 4 decimals
round_dp4(x) == Sign(x) * RoundDiv(Abs(x), 100)

\* Kinematics::calc_rot_matrix(alpha, beta, gamma), entries with 4 decimals
calc_rot_matrix(alpha, beta, gamma) ==
    << << round_dp4(DMul(DCos(alpha), DCos(beta))),
          round_dp4(DMul(DMul(DCos(alpha), DSin(beta)), DSin(gamma))
                      - DMul(DSin(gamma), DSin(alpha))),
          round_dp4(DMul(DSin(alpha), DSin(gamma))
                      + DMul(DMul(DCos(alpha), DCos(gamma)), DSin(beta))) >>,
       << round_dp4(DMul(DCos(beta), DSin(alpha))),
          round_dp4(DMul(DCos(alpha), DCos(gamma))
                      + DMul(DMul(DSin(alpha), DSin(beta)), DSin(gamma))),
          round_dp4(DMul(DMul(DCos(gamma), DSin(alpha)), DSin(beta))
                      - DMul(DCos(alpha), DSin(gamma))) >>,
       << round_dp4(-DSin(beta)),
          round_dp4(DMul(DCos(beta), DSin(gamma))),
          round_dp4(DMul(DCos(beta), DCos(gamma))) >> >>

-----------------------------------------------------------------------------
(* Points, motors, platform *)

\* impl Sub for Point
Sub(p, q) == <<p[1] - q[1], p[2] - q[2], p[3] - q[3]>>

Direction == {"Left", "Right"}

\* Motor::new(position, direction)
Motor(position, direction) == [position |-> position, direction |-> direction]

\* motor base positions of a small hexagon (the layout of the test fixture)
MotorPositions ==
    << <<1, -3, 0>>, <<3, 1, 0>>, <<2, 2, 0>>,
       <<-2, 2, 0>>, <<-3, 1, 0>>, <<-1, -3, 0>> >>

\* the directions of the six motors: the fixture's alternation and an
\* irregular assignment
DirectionLayouts ==
    { <<"Right", "Left", "Right", "Left", "Right", "Left">>,
      <<"Left", "Left", "Right", "Right", "Left", "Right">> }

MotorLayouts ==
    { [i \in 1..6 |-> Motor(MotorPositions[i], d[i])] : d \in DirectionLayouts }

\* Platform { center, arm_positions }
Platforms ==
    { [center |-> <<0, 0, 0>>,
       arm_positions |-> << <<1, -2, 0>>, <<2, 1, 0>>, <<1, 2, 0>>,
                            <<-1, 2, 0>>, <<-2, 1, 0>>, <<-1, -2, 0>> >>],
      [center |-> <<0, 0, 1>>,
       arm_positions |-> << <<0, -1, 1>>, <<1, 0, 1>>, <<1, 1, 1>>,
                            <<-1, 1, 1>>, <<-1, 0, 1>>, <<0, 0, 1>> >>] }

-----------------------------------------------------------------------------
(* The servo angle of one leg *)

\* the f64 quotient phi of calc_servo_pos
Phi(top, bottom, ep) ==
    Frac(l2_norm(ep) + (bottom * bottom - top * top) * FScale,
         2 * bottom * l2_norm(<<ep[1], ep[2]>>))

\* Kinematics::calc_servo_pos(&self, end_pos, dir) -> f64
calc_servo_pos(top, bottom, end_pos, dir) ==
    LET phi == Phi(top, bottom, end_pos)
    IN IF dir = "Left"
       THEN FAdd(atan2(end_pos[3], end_pos[2]), acos(FRem1(phi)))
       ELSE FSub(atan2(end_pos[3], end_pos[2]), acos(FRem1(phi)))

\* the end effector positions inverse_kinematics hands to calc_servo_pos
EndPositions(target_pos, platform) ==
    [i \in 1..6 |-> Sub(target_pos, platform.arm_positions[i])]

\* the value Kinematics::inverse_kinematics returns: the six servo angles
IkAngles(top, bottom, ms, target_pos, platform) ==
    [i \in 1..6 |->
        calc_servo_pos(top, bottom, EndPositions(target_pos, platform)[i],
                       ms[i].direction)]

-----------------------------------------------------------------------------
(* Results *)

Ok(v) == [kind |-> "Ok", value |-> v]
Err(e) == [kind |-> "Err", value |-> e]

-----------------------------------------------------------------------------
(* Kinematics: state and operations *)

\* Kinematics::new(top_leg_length, bottom_leg_length, motors)
KinematicsNew(top, bottom, ms) ==
    /\ top_leg_length = top
    /\ bottom_leg_length = bottom
    /\ motors = ms
    /\ constructed = [top_leg_length |-> top, bottom_leg_length |-> bottom,
                      motors |-> ms]
    /\ op = "new"
    /\ args = <<>>
    /\ ret = Ok(<<>>)
    /\ locals = <<>>

\* the leg vectors calc_servo_pos is called with
EndPosArgs == (0..MaxCoord) \X (-1..1) \X (-1..1)

\* the target positions handed to inverse_kinematics
IkTargets == { <<0, 0, 0>>, <<0, 0, 1>>, <<1, 0, 0>>, <<0, -1, 1>>,
               <<1, 1, 1>>, <<-1, 2, 0>> }

\* the orientations (roll, pitch, yaw) handed to inverse_kinematics
IkOrientations == { <<0, 0, 0>>, <<45, 60, 90>>, <<90, 0, 0>> }

\* a call of Kinematics::calc_rot_matrix (rotation_matrix_test calls it)
CalcRotMatrix(alpha, beta, gamma) ==
    /\ op' = "calc_rot_matrix"
    /\ args' = <<alpha, beta, gamma>>
    /\ ret' = Ok(calc_rot_matrix(alpha, beta, gamma))
    /\ locals' = <<>>
    /\ UNCHANGED <<top_leg_length, bottom_leg_length, motors, constructed>>
    /\ UNCHANGED maestro_vars

\* a call of Kinematics::calc_servo_pos on &self
CalcServoPos(end_pos, dir) ==
    /\ op' = "calc_servo_pos"
    /\ args' = <<end_pos, dir>>
    /\ ret' = Ok(calc_servo_pos(top_leg_length, bottom_leg_length, end_pos, dir))
    /\ locals' = [phi |-> Phi(top_leg_length, bottom_leg_length, end_pos)]
    /\ UNCHANGED <<top_leg_length, bottom_leg_length, motors, constructed>>
    /\ UNCHANGED maestro_vars

\* inverse_kinematics as it would be on &mut self, were it to keep the
\* directions it solved with turned over in the engine
InverseKinematicsFlipping(target_pos, target_orientation, platform) ==
    /\ op' = "inverse_kinematics"
    /\ args' = <<target_pos, target_orientation, platform>>
    /\ locals' = [platform_ore |->
                     calc_rot_matrix(target_orientation[1], target_orientation[2],
                                     target_orientation[3]),
                  end_pos |-> EndPositions(target_pos, platform)]
    /\ ret' = Ok(IkAngles(top_leg_length, bottom_leg_length, motors,
                          target_pos, platform))
    /\ motors' = [i \in 1..6 |->
                    Motor(motors[i].position,
                          IF motors[i].direction = "Left" THEN "Right" ELSE "Left")]
    /\ UNCHANGED <<top_leg_length, bottom_leg_length, constructed>>
    /\ UNCHANGED maestro_vars

\* a call of Kinematics::inverse_kinematics on &self
InverseKinematics(target_pos, target_orientation, platform) ==
    /\ op' = "inverse_kinematics"
    /\ args' = <<target_pos, target_orientation, platform>>
    /\ locals' = [platform_ore |->
                     calc_rot_matrix(target_orientation[1], target_orientation[2],
                                     target_orientation[3]),
                  end_pos |-> EndPositions(target_pos, platform)]
    /\ ret' = Ok(IkAngles(top_leg_length, bottom_leg_length, motors,
                          target_pos, platform))
    /\ UNCHANGED <<top_leg_length, bottom_leg_length, motors, constructed>>
    /\ UNCHANGED maestro_vars

-----------------------------------------------------------------------------
(* Maestro: the serial driver *)

MAX_CHANNEL == 11

\* verify_channel_range with the comparison off by one (>= for >)
verify_channel_range_ge(channel) ==
    IF channel >= MAX_CHANNEL THEN Err("InvalidChannel") ELSE Ok(<<>>)

\* verify_channel_range(channel)
verify_channel_range(channel) ==
    IF channel > MAX_CHANNEL THEN Err("InvalidChannel") ELSE Ok(<<>>)

\* form_data(command, channel, data): data & 0x7F, (data >> 7) & 0x7F
form_data(command, channel, data) ==
    <<command, channel, data % 128, (data \div 128) % 128>>

\* 2^k
RECURSIVE Pow2(_)
Pow2(k) == IF k = 0 THEN 1 ELSE 2 * Pow2(k - 1)

\* `position as f32 * 22.22222222` followed by `as u16`: the f32 nearest to
\* 22.22222222 is 11650844 * 2^-19; the exact product is rounded to 24
\* significant bits (ties to even), then truncated and saturated to u16
QuarterMicroseconds(position) ==
    LET p == position * 11650844
        e == CHOOSE k \in 0..7 :
                /\ p \div Pow2(k) < Pow2(24)
                /\ (k = 0 \/ p \div Pow2(k - 1) >= Pow2(24))
        r == RoundDiv(p, Pow2(e)) * Pow2(e)
        q == r \div Pow2(19)
    IN IF q > 65535 THEN 65535 ELSE q

Min(a, b) == IF a < b THEN a ELSE b

\* what serial_port.write(data) gives: an error, or Ok(n) with n <= len(data)
\* bytes accepted
WriteErr == [ok |-> FALSE, n |-> 0]
Wrote(n) == [ok |-> TRUE, n |-> n]
WriteOutcomes(len) == {WriteErr} \cup {Wrote(n) : n \in 0..len}

\* the port during a call: the bytes it received from the call, and the
\* count each successful write returned
NoWrites == [bytes |-> <<>>, accepted |-> <<>>]

\* serial_port.write(data) with outcome Ok(n): the first n bytes go out
PortWrite(m, data, n) ==
    [bytes |-> m.bytes \o SubSeq(data, 1, Min(n, Len(data))),
     accepted |-> Append(m.accepted, Min(n, Len(data)))]

\* Maestro::send_command_no_response(&mut self, data); wo: the outcome of
\* the write
send_command_no_response(m, data, wo) ==
    IF ~wo.ok THEN [m |-> m, ret |-> Err("UnableToSend")]
    ELSE [m |-> PortWrite(m, data, wo.n), ret |-> Ok(<<>>)]

\* Maestro::send_command(&mut self, data); wo: the outcome of the write;
\* rd: what read_exact gives, two bytes or "Err"
send_command(m, data, wo, rd) ==
    IF ~wo.ok THEN [m |-> m, ret |-> Err("UnableToSend")]
    ELSE LET w == PortWrite(m, data, wo.n)
         IN IF rd = "Err" THEN [m |-> w, ret |-> Err("UnableToReceive")]
            ELSE [m |-> w, ret |-> Ok(rd[1] + 256 * rd[2])]

\* Maestro::set_acceleration(&mut self, channel, acceleration)
set_acceleration(m, channel, acceleration, wo) ==
    IF verify_channel_range(channel).kind = "Err"
    THEN [m |-> m, ret |-> verify_channel_range(channel)]
    ELSE send_command_no_response(m, form_data(132, channel, acceleration), wo)

\* Maestro::set_speed(&mut self, channel, speed)
set_speed(m, channel, speed, wo) ==
    IF verify_channel_range(channel).kind = "Err"
    THEN [m |-> m, ret |-> verify_channel_range(channel)]
    ELSE send_command_no_response(m, form_data(132, channel, speed), wo)

\* Maestro::set_position(&mut self, channel, position)
set_position(m, channel, position, wo) ==
    IF verify_channel_range(channel).kind = "Err"
    THEN [m |-> m, ret |-> verify_channel_range(channel)]
    ELSE send_command_no_response(
             m, form_data(132, channel, QuarterMicroseconds(position)), wo)

\* Maestro::get_position(&mut self, channel)
get_position(m, channel, wo, rd) ==
    IF verify_channel_range(channel).kind = "Err"
    THEN [m |-> m, ret |-> verify_channel_range(channel)]
    ELSE send_command(m, <<144, channel>>, wo, rd)

\* Maestro::get_moving_state(&mut self)
get_moving_state(m, wo, rd) ==
    LET res == send_command(m, <<147>>, wo, rd)
    IN IF res.ret.kind = "Err" THEN res
       ELSE IF res.ret.value = 0 THEN [m |-> res.m, ret |-> Ok("ServosStopped")]
       ELSE IF res.ret.value = 1 THEN [m |-> res.m, ret |-> Ok("ServosMoving")]
       ELSE [m |-> res.m, ret |-> Err("InvalidMovingState")]

SetOne(which, m, channel, value, wo) ==
    CASE which = "set_acceleration" -> set_acceleration(m, channel, value, wo)
      [] which = "set_speed" -> set_speed(m, channel, value, wo)
      [] which = "set_position" -> set_position(m, channel, value, wo)

\* the loop of set_accelerations / set_speeds / set_positions over
\* channels.zip(values), from element i on; wos[i] is the outcome of the
\* write of element i
RECURSIVE SetLoop(_, _, _, _, _, _)
SetLoop(which, m, channels, values, i, wos) ==
    IF i > Min(Len(channels), Len(values)) THEN [m |-> m, ret |-> Ok(<<>>)]
    ELSE LET r == SetOne(which, m, channels[i], values[i], wos[i])
         IN IF r.ret.kind = "Err" THEN r
            ELSE SetLoop(which, r.m, channels, values, i + 1, wos)

\* Maestro::set_accelerations(&mut self, channels, accels)
set_accelerations(m, channels, accels, wos) ==
    SetLoop("set_acceleration", m, channels, accels, 1, wos)

\* Maestro::set_speeds(&mut self, channels, speeds)
set_speeds(m, channels, speeds, wos) ==
    SetLoop("set_speed", m, channels, speeds, 1, wos)

\* Maestro::set_positions(&mut self, channels, positions)
set_positions(m, channels, positions, wos) ==
    SetLoop("set_position", m, channels, positions, 1, wos)

\* the loop of get_pos_motors, from element i on, motor_positions so far in
\* acc; wos[i] and rds[i] are the outcomes of the write and of the read of
\* element i
RECURSIVE GetLoop(_, _, _, _, _, _)
GetLoop(m, channels, i, acc, wos, rds) ==
    IF i > Len(channels) THEN [m |-> m, ret |-> Ok(acc)]
    ELSE LET r == get_position(m, channels[i], wos[i], rds[i])
         IN IF r.ret.kind = "Err" THEN r
            ELSE GetLoop(r.m, channels, i + 1, Append(acc, r.ret.value), wos, rds)

\* Maestro::get_pos_motors(&mut self, channels)
get_pos_motors(m, channels, wos, rds) ==
    GetLoop(m, channels, 1, <<>>, wos, rds)

\* Maestro::new(port): the connection is opened, or UnableToConnect and no
\* Maestro
MaestroNew(opened) ==
    /\ serial_port = <<>>
    /\ m_accepted = <<>>
    /\ m_op = "new"
    /\ m_args = <<>>
    /\ m_ret = IF opened THEN Ok(<<>>) ELSE Err("UnableToConnect")

\* the arguments the operations are called with
ChannelArgs == 0..MaxChannelArg
ValueList == <<0, 9, 180>>
ValueArgs == {ValueList[i] : i \in 1..Len(ValueList)}
BatchChannelArgs == {5, MAX_CHANNEL + 1}
SeqsUpTo(S, n) == UNION {[1..k -> S] : k \in 0..n}
ValuePrefixes == {[i \in 1..k |-> ValueList[((i - 1) % Len(ValueList)) + 1]] : k \in 0..MaxBatch}
ReadOutcomes == {"Err", <<0, 0>>, <<1, 0>>, <<112, 23>>}

\* the outcomes of the writes and of the reads of a batch, one per element
BatchWrites(len) == [1..MaxBatch -> WriteOutcomes(len)]
BatchReads == [1..MaxBatch -> ReadOutcomes]

\* a Maestro exists and no call is running: the last result has been taken
\* and the port has sent what it had received
Ready == m_op \in {"new", "idle"} /\ m_ret.kind = "Ok"

\* what a finished call leaves: its result, and in serial_port the bytes
\* the port received from it
Returned(r) ==
    /\ m_ret' = r.ret
    /\ serial_port' = r.m.bytes
    /\ m_accepted' = r.m.accepted

SetAcceleration(channel, acceleration, wo) ==
    /\ Ready
    /\ m_op' = "set_acceleration"
    /\ m_args' = <<channel, acceleration>>
    /\ Returned(set_acceleration(NoWrites, channel, acceleration, wo))
    /\ UNCHANGED kin_vars

SetSpeed(channel, speed, wo) ==
    /\ Ready
    /\ m_op' = "set_speed"
    /\ m_args' = <<channel, speed>>
    /\ Returned(set_speed(NoWrites, channel, speed, wo))
    /\ UNCHANGED kin_vars

SetPosition(channel, position, wo) ==
    /\ Ready
    /\ m_op' = "set_position"
    /\ m_args' = <<channel, position>>
    /\ Returned(set_position(NoWrites, channel, position, wo))
    /\ UNCHANGED kin_vars

GetPosition(channel, wo, rd) ==
    /\ Ready
    /\ m_op' = "get_position"
    /\ m_args' = <<channel>>
    /\ Returned(get_position(NoWrites, channel, wo, rd))
    /\ UNCHANGED kin_vars

GetMovingState(wo, rd) ==
    /\ Ready
    /\ m_op' = "get_moving_state"
    /\ m_args' = <<>>
    /\ Returned(get_moving_state(NoWrites, wo, rd))
    /\ UNCHANGED kin_vars

SetAccelerations(channels, accels, wos) ==
    /\ Ready
    /\ m_op' = "set_accelerations"
    /\ m_args' = <<channels, accels>>
    /\ Returned(set_accelerations(NoWrites, channels, accels, wos))
    /\ UNCHANGED kin_vars

SetSpeeds(channels, speeds, wos) ==
    /\ Ready
    /\ m_op' = "set_speeds"
    /\ m_args' = <<channels, speeds>>
    /\ Returned(set_speeds(NoWrites, channels, speeds, wos))
    /\ UNCHANGED kin_vars

SetPositions(channels, positions, wos) ==
    /\ Ready
    /\ m_op' = "set_positions"
    /\ m_args' = <<channels, positions>>
    /\ Returned(set_positions(NoWrites, channels, positions, wos))
    /\ UNCHANGED kin_vars

GetPosMotors(channels, wos, rds) ==
    /\ Ready
    /\ m_op' = "get_pos_motors"
    /\ m_args' = <<channels>>
    /\ Returned(get_pos_motors(NoWrites, channels, wos, rds))
    /\ UNCHANGED kin_vars

\* between two calls: the caller has taken the result of the last call and
\* the port has sent the bytes it had received
Transmitted ==
    /\ m_op \notin {"new", "idle"}
    /\ m_op' = "idle"
    /\ m_args' = <<>>
    /\ m_ret' = Ok(<<>>)
    /\ serial_port' = <<>>
    /\ m_accepted' = <<>>
    /\ UNCHANGED kin_vars

-----------------------------------------------------------------------------
(* Specifications *)

Init ==
    /\ \E top \in 1..MaxLen, bottom \in 1..MaxLen, ms \in MotorLayouts :
          KinematicsNew(top, bottom, ms)
    /\ MaestroNew(TRUE)

\* the driver does not depend on the engine: one engine is enough
MaestroInit ==
    /\ \E ms \in MotorLayouts : KinematicsNew(MaxLen, 1, ms)
    /\ \E opened \in BOOLEAN : MaestroNew(opened)

KinNext ==
    \/ \E alpha \in Angles, beta \in Angles, gamma \in Angles :
          CalcRotMatrix(alpha, beta, gamma)
    \/ \E end_pos \in EndPosArgs, dir \in Direction :
          CalcServoPos(end_pos, dir)
    \/ \E target_pos \in IkTargets, o \in IkOrientations, platform \in Platforms :
          InverseKinematics(target_pos, o, platform)

MaestroNext ==
    \/ \E c \in ChannelArgs, v \in ValueArgs, wo \in WriteOutcomes(4) :
          SetAcceleration(c, v, wo)
    \/ \E c \in ChannelArgs, v \in ValueArgs, wo \in WriteOutcomes(4) :
          SetSpeed(c, v, wo)
    \/ \E c \in ChannelArgs, v \in ValueArgs, wo \in WriteOutcomes(4) :
          SetPosition(c, v, wo)
    \/ \E c \in ChannelArgs, wo \in WriteOutcomes(2), rd \in ReadOutcomes :
          GetPosition(c, wo, rd)
    \/ \E wo \in WriteOutcomes(1), rd \in ReadOutcomes : GetMovingState(wo, rd)
    \/ \E cs \in SeqsUpTo(BatchChannelArgs, MaxBatch), vs \in ValuePrefixes,
          wos \in BatchWrites(4) : SetAccelerations(cs, vs, wos)
    \/ \E cs \in SeqsUpTo(BatchChannelArgs, MaxBatch), vs \in ValuePrefixes,
          wos \in BatchWrites(4) : SetSpeeds(cs, vs, wos)
    \/ \E cs \in SeqsUpTo(BatchChannelArgs, MaxBatch), vs \in ValuePrefixes,
          wos \in BatchWrites(4) : SetPositions(cs, vs, wos)
    \/ \E cs \in SeqsUpTo(BatchChannelArgs, MaxBatch), wos \in BatchWrites(2),
          rds \in BatchReads : GetPosMotors(cs, wos, rds)
    \/ Transmitted

\* the kinematics engine under any sequence of calls
Spec == Init /\ [][KinNext]_vars

\* the Maestro driver under any sequence of calls
MaestroSpec == MaestroInit /\ [][MaestroNext]_vars

-----------------------------------------------------------------------------
(* What the specification states, for the claims below *)

\* section 4.1: R = Rz(yaw) * Ry(pitch) * Rx(roll), alpha = yaw, beta = pitch,
\* gamma = roll, every entry rounded to 4 decimals
SpecRotation(roll, pitch, yaw) ==
    << << round_dp4(DMul(DCos(yaw), DCos(pitch))),
          round_dp4(DMul(DMul(DCos(yaw), DSin(pitch)), DSin(roll))
                      - DMul(DSin(yaw), DCos(roll))),
          round_dp4(DMul(DSin(yaw), DSin(roll))
                      + DMul(DMul(DCos(yaw), DCos(roll)), DSin(pitch))) >>,
       << round_dp4(DMul(DSin(yaw), DCos(pitch))),
          round_dp4(DMul(DCos(yaw), DCos(roll))
                      + DMul(DMul(DSin(yaw), DSin(pitch)), DSin(roll))),
          round_dp4(DMul(DMul(DCos(roll), DSin(yaw)), DSin(pitch))
                      - DMul(DCos(yaw), DSin(roll))) >>,
       << round_dp4(-DSin(pitch)),
          round_dp4(DMul(DCos(pitch), DSin(roll))),
          round_dp4(DMul(DCos(pitch), DCos(roll))) >> >>

Identity4 == << <<10000, 0, 0>>, <<0, 10000, 0>>, <<0, 0, 10000>> >>

\* the reference matrix of rotation_matrix_test for (pi/4, pi/3, pi/2)
Reference4 == << <<0, -7071, 7071>>, <<5000, 6124, 6124>>, <<-8660, 3536, 3536>> >>

\* section 4.3: phi = (d^2 + bottom^2 - top^2) / (2 * bottom * r)
SpecPhi(top, bottom, ep) ==
    Frac((ep[1] * ep[1] + ep[2] * ep[2] + ep[3] * ep[3]
            + bottom * bottom - top * top) * FScale,
         2 * bottom * l2_norm(<<ep[1], ep[2]>>))

\* the horizontal projection norm r is 0
ZeroProjection(ep) == ep[1] = 0 /\ ep[2] = 0

\* a quotient outside [-1, 1] (or not a number)
OutsideUnit(x) == x.den = 0 \/ Abs(x.num) > x.den

\* two quotients are the same number
SameFrac(x, y) ==
    /\ x.den # 0
    /\ y.den # 0
    /\ IF x.den = y.den THEN x.num = y.num
       ELSE x.num * y.den = y.num * x.den

\* section 4.3, step 3: the leg cannot reach
Unreachable(top, bottom, ep) ==
    ZeroProjection(ep) \/ OutsideUnit(SpecPhi(top, bottom, ep))

InvalidTargetPosition == Err("InvalidTargetPosition")

\* section 4.2: 10000 * (target + R * attachment - motor position), R with
\* 4 decimals
SpecLegVector4(target, R, attachment, motor_position) ==
    [k \in 1..3 |->
        10000 * target[k]
          + R[k][1] * attachment[1] + R[k][2] * attachment[2]
          + R[k][3] * attachment[3]
          - 10000 * motor_position[k]]

-----------------------------------------------------------------------------
(* Claims *)

\* C1: inverse_kinematics is all-or-nothing: if the servo angle solve fails
\* for at least one of the six legs (the leg is unreachable), the call
\* returns the error InvalidTargetPosition and no angles; six angles are
\* returned only when every leg is reachable.
C1_AllOrNothing ==
    op = "inverse_kinematics" =>
        IF \E i \in 1..6 :
              Unreachable(top_leg_length, bottom_leg_length, locals.end_pos[i])
        THEN ret = InvalidTargetPosition
        ELSE ret.kind = "Ok" /\ \A i \in 1..6 : ~ret.value[i].nan

\* C2: for every leg vector with x = 0 and y = 0 the servo angle solve
\* returns InvalidTargetPosition: it does not divide by 2*bottom_length*r = 0
\* and returns no angle.
C2_ZeroProjectionRejected ==
    (op = "calc_servo_pos" /\ ZeroProjection(args[1])) =>
        /\ ret = InvalidTargetPosition
        /\ locals.phi.den # 0

\* C3: whenever phi = (d^2 + bottom^2 - top^2) / (2*bottom*r) lies outside
\* [-1, 1], the servo angle solve fails with InvalidTargetPosition instead
\* of reducing phi into the domain of acos.
C3_OutOfRangeRejected ==
    (op = "calc_servo_pos" /\ ~ZeroProjection(args[1])
       /\ OutsideUnit(SpecPhi(top_leg_length, bottom_leg_length, args[1]))) =>
        ret = InvalidTargetPosition

\* C4: the leg vector inverse_kinematics hands to the servo solve for leg i
\* is target_position + rotation * platform.attachment[i] - motors[i].position.
C4_LegVector ==
    op = "inverse_kinematics" =>
        \A i \in 1..6 :
            [k \in 1..3 |-> 10000 * locals.end_pos[i][k]]
              = SpecLegVector4(args[1], locals.platform_ore,
                               args[3].arm_positions[i], motors[i].position)

\* C5: called with (roll, pitch, yaw) in this order, the rotation builder
\* returns Rz(yaw)*Ry(pitch)*Rx(roll) of section 4.1 entry by entry:
\* the identity for (0, 0, 0), the reference matrix for (pi/4, pi/3, pi/2).
C5_RotationMatrix ==
    op = "calc_rot_matrix" =>
        /\ ret.value = SpecRotation(args[1], args[2], args[3])
        /\ (args = <<0, 0, 0>> => ret.value = Identity4)
        /\ (args = <<45, 60, 90>> => ret.value = Reference4)

\* C6: for every leg vector with r > 0 the cosine argument the servo angle
\* solve computes is (d^2 + bottom^2 - top^2) / (2*bottom*r), d the 3D norm.
C6_CosineArgument ==
    (op = "calc_servo_pos" /\ ~ZeroProjection(args[1])) =>
        SameFrac(locals.phi, SpecPhi(top_leg_length, bottom_leg_length, args[1]))

\* C7: for every reachable leg vector the servo angle solve returns
\* base + acos(phi) for Left and base - acos(phi) for Right, with
\* base = atan2(z, y) and phi the cosine argument of section 4.3.
C7_DirectionSign ==
    (op = "calc_servo_pos"
       /\ ~Unreachable(top_leg_length, bottom_leg_length, args[1])) =>
        LET base == atan2(args[1][3], args[1][2])
            a == acos(SpecPhi(top_leg_length, bottom_leg_length, args[1]))
        IN ret = Ok(IF args[2] = "Left" THEN FAdd(base, a) ELSE FSub(base, a))

\* C8: a solve call never changes the geometry of the engine: after any
\* sequence of calls the leg lengths and the six motors are those given at
\* construction, and the result of inverse_kinematics is the function of that
\* geometry and of the call's inputs, whatever calls ran before.
C8_GeometryUnchanged ==
    /\ top_leg_length = constructed.top_leg_length
    /\ bottom_leg_length = constructed.bottom_leg_length
    /\ motors = constructed.motors
    /\ op = "inverse_kinematics" =>
          ret = Ok(IkAngles(constructed.top_leg_length,
                            constructed.bottom_leg_length,
                            constructed.motors, args[1], args[3]))

\* C8 witness: an inverse_kinematics call has returned, one of its legs out
\* of reach (a NaN angle), on an engine whose motors differ in direction
C8_Witness ==
    /\ op = "inverse_kinematics"
    /\ \E i \in 1..6 : ret.value[i].nan
    /\ \E i \in 1..6 : ~ret.value[i].nan
    /\ motors = constructed.motors
    /\ \E i, j \in 1..6 : motors[i].direction # motors[j].direction

SingleOps == {"set_acceleration", "set_speed", "set_position", "get_position"}
BatchSetOps == {"set_accelerations", "set_speeds", "set_positions"}

\* the number of bytes serial_port holds before those of the j-th write
RECURSIVE WriteStart(_)
WriteStart(j) == IF j <= 1 THEN 0 ELSE WriteStart(j - 1) + m_accepted[j - 1]

\* the batch operations issue commands in list order and stop at the first
\* element with a channel above 11: cs the channels, n the elements zipped,
\* w the bytes of one command, cmd its command byte.  serial_port is the
\* writes of the elements 1..k one after the other, each the accepted
\* leading bytes of that element's command
BatchInOrder(cs, n, w, cmd) ==
    LET k == Len(m_accepted)
    IN /\ Len(serial_port) = WriteStart(k + 1)
       /\ k <= n
       /\ \A j \in 1..k :
             /\ cs[j] <= 11
             /\ m_accepted[j] <= w
             /\ m_accepted[j] >= 1 => serial_port[WriteStart(j) + 1] = cmd
             /\ m_accepted[j] >= 2 => serial_port[WriteStart(j) + 2] = cs[j]
       /\ \A j \in 1..n : cs[j] > 11 => k < j
       /\ (m_ret = Err("InvalidChannel") => k < n /\ cs[k + 1] > 11)
       /\ (m_ret.kind = "Ok" => k = n)

\* C9: set_acceleration, set_speed, set_position and get_position return
\* InvalidChannel and write nothing for a channel above 11, and never return
\* InvalidChannel for a channel in 0..11; the batch operations issue their
\* commands in list order and stop at the first invalid channel.
C9_ChannelRange ==
    /\ m_op \in SingleOps =>
          /\ m_args[1] > 11 =>
                /\ m_ret = Err("InvalidChannel")
                /\ serial_port = <<>>
                /\ m_accepted = <<>>
          /\ m_args[1] <= 11 => m_ret # Err("InvalidChannel")
    /\ m_op \in BatchSetOps =>
          BatchInOrder(m_args[1], Min(Len(m_args[1]), Len(m_args[2])), 4, 132)
    /\ m_op = "get_pos_motors" => BatchInOrder(m_args[1], Len(m_args[1]), 2, 144)

\* C9 witness: set_positions([5, 12], ...) has written the command of
\* channel 5 and stopped at channel 12 with InvalidChannel
C9_Witness ==
    /\ m_op = "set_positions"
    /\ m_args[1] = <<5, 12>>
    /\ Len(m_args[2]) = 2
    /\ m_ret = Err("InvalidChannel")
    /\ m_accepted = <<4>>
    /\ serial_port[2] = 5

\* the whole frames an operation can write, over every channel and value
FramesOf(which) ==
    {SetOne(which, NoWrites, c, v, Wrote(4)).m.bytes :
        c \in 0..MAX_CHANNEL, v \in ValueArgs}

\* C10: the frames of set_acceleration, set_speed and set_position carry
\* pairwise distinct command bytes: a frame written by set_speed or
\* set_acceleration is never a frame set_position (or the other one) writes.
C10_DistinctCommands ==
    /\ (m_op = "set_speed" /\ Len(serial_port) = 4) =>
          serial_port \notin FramesOf("set_position") \cup FramesOf("set_acceleration")
    /\ (m_op = "set_acceleration" /\ Len(serial_port) = 4) =>
          serial_port \notin FramesOf("set_position") \cup FramesOf("set_speed")

====
